---- MODULE Spec2Model ----
(***************************************************************************)
(* Model of the binary codec of src/src/lib.rs: the Encode / Decode traits *)
(* for unsigned integers, String, Vec<T>, and the records and nullary      *)
(* unions produced by derive_struct! and derive_enum!.                     *)
(*                                                                         *)
(* A byte is a number in 0..255, a stream a sequence of bytes.  A String   *)
(* is modelled by its sequence of Unicode scalar values; as_bytes and      *)
(* from_utf8 are the UTF-8 encoder and the validating UTF-8 decoder.       *)
(* Integer values are kept below 2^31 (the range of TLC's integers); the   *)
(* byte width of every integer type is the real one.                       *)
(***************************************************************************)
EXTENDS Integers, Sequences, FiniteSets, TLC

VARIABLES pc, writer, sent, wrote, reader, want, got

vars == <<pc, writer, sent, wrote, reader, want, got>>

(***************************************************************************)
(* Bounds of the model.                                                    *)
(***************************************************************************)
MaxStrLen == 2
MaxVecLen == 2
MaxItems == 2
MaxRoom == 12
MaxRawLen == 2
NumVariants == 3
MaxExtraTag == 2

(***************************************************************************)
(* Types.  Example is the record of the test module; Packet and Kind are   *)
(* an instance of derive_struct! and of derive_enum!.                      *)
(***************************************************************************)
NumTypes == {"u8", "u16", "u32", "u64", "u128", "usize"}
VecTypes == {"Vec<u8>", "Vec<u16>", "Vec<u32>", "Vec<u64>", "Vec<u128>", "Vec<String>"}
StructTypes == {"Example", "Packet"}
Types == NumTypes \cup {"String", "Kind"} \cup VecTypes \cup StructTypes

KindOf(ty) ==
    IF ty \in NumTypes THEN "num"
    ELSE IF ty = "String" THEN "str"
    ELSE IF ty \in VecTypes THEN "vec"
    ELSE IF ty \in StructTypes THEN "struct"
    ELSE "enum"

\* size_of::<$primitive>() in bytes; usize is the 64-bit platform word.
size_of(ty) ==
    CASE ty = "u8" -> 1
      [] ty = "u16" -> 2
      [] ty = "u32" -> 4
      [] ty = "u64" -> 8
      [] ty = "u128" -> 16
      [] ty = "usize" -> 8

ElemOf(ty) ==
    CASE ty = "Vec<u8>" -> "u8"
      [] ty = "Vec<u16>" -> "u16"
      [] ty = "Vec<u32>" -> "u32"
      [] ty = "Vec<u64>" -> "u64"
      [] ty = "Vec<u128>" -> "u128"
      [] ty = "Vec<String>" -> "String"

\* The declared field list ($field : $type),* of a record, types only.
FieldsOf(ty) ==
    IF ty = "Example" THEN <<"u128", "String", "String", "u16", "String">>
    ELSE <<"u16", "Kind", "String">>

(***************************************************************************)
(* Integers <-> big-endian bytes.                                          *)
(***************************************************************************)
RECURSIVE to_le_bytes(_, _)
to_le_bytes(v, n) ==
    IF n = 0 THEN <<>> ELSE <<v % 256>> \o to_le_bytes(v \div 256, n - 1)

RECURSIVE to_be_bytes(_, _)
to_be_bytes(v, n) ==
    IF n = 0 THEN <<>> ELSE Append(to_be_bytes(v \div 256, n - 1), v % 256)

\* A value above 2^31 - 1 is read as 2^31 - 1.  Such values are never
\* written here; read from a malformed stream as a length or a tag they
\* exceed, clamped or not, every stream length and every variant index.
RECURSIVE from_be_bytes(_)
from_be_bytes(b) ==
    IF b = <<>> THEN 0
    ELSE LET hi == from_be_bytes(SubSeq(b, 1, Len(b) - 1))
             lo == b[Len(b)]
         IN  IF hi > (2147483647 - lo) \div 256 THEN 2147483647
             ELSE hi * 256 + lo

(***************************************************************************)
(* UTF-8.  utf8_char is char::encode_utf8; as_bytes is the byte content of *)
(* a String; from_utf8 is String::from_utf8 (validating).                  *)
(***************************************************************************)
utf8_char(c) ==
    IF c < 128 THEN <<c>>
    ELSE IF c < 2048 THEN <<192 + (c \div 64), 128 + (c % 64)>>
    ELSE IF c < 65536
        THEN <<224 + (c \div 4096), 128 + ((c \div 64) % 64), 128 + (c % 64)>>
    ELSE <<240 + (c \div 262144), 128 + ((c \div 4096) % 64),
           128 + ((c \div 64) % 64), 128 + (c % 64)>>

RECURSIVE as_bytes(_)
as_bytes(s) ==
    IF s = <<>> THEN <<>> ELSE utf8_char(Head(s)) \o as_bytes(Tail(s))

\* chars().count() of a String
chars_count(s) == Len(s)

\* len() of a String: its length in bytes
str_len(s) == Len(as_bytes(s))

IsCont(b, lo, hi) == b >= lo /\ b <= hi

\* Width of the well-formed UTF-8 sequence starting at b[i], or 0 if none.
utf8_width(b, i) ==
    LET n == Len(b)
        b0 == b[i]
        b1 == IF i + 1 <= n THEN b[i + 1] ELSE 0
        b2 == IF i + 2 <= n THEN b[i + 2] ELSE 0
        b3 == IF i + 3 <= n THEN b[i + 3] ELSE 0
    IN  IF b0 < 128 THEN 1
        ELSE IF b0 >= 194 /\ b0 <= 223
            THEN (IF IsCont(b1, 128, 191) THEN 2 ELSE 0)
        ELSE IF b0 >= 224 /\ b0 <= 239
            THEN (IF /\ IsCont(b1, IF b0 = 224 THEN 160 ELSE 128,
                                   IF b0 = 237 THEN 159 ELSE 191)
                     /\ IsCont(b2, 128, 191)
                  THEN 3 ELSE 0)
        ELSE IF b0 >= 240 /\ b0 <= 244
            THEN (IF /\ IsCont(b1, IF b0 = 240 THEN 144 ELSE 128,
                                   IF b0 = 244 THEN 143 ELSE 191)
                     /\ IsCont(b2, 128, 191)
                     /\ IsCont(b3, 128, 191)
                  THEN 4 ELSE 0)
        ELSE 0

utf8_scalar(b, i, w) ==
    CASE w = 1 -> b[i]
      [] w = 2 -> (b[i] - 192) * 64 + (b[i + 1] - 128)
      [] w = 3 -> (b[i] - 224) * 4096 + (b[i + 1] - 128) * 64 + (b[i + 2] - 128)
      [] w = 4 -> (b[i] - 240) * 262144 + (b[i + 1] - 128) * 4096
                  + (b[i + 2] - 128) * 64 + (b[i + 3] - 128)

RECURSIVE utf8_from(_, _, _)
utf8_from(b, i, acc) ==
    IF i > Len(b) THEN [ok |-> TRUE, s |-> acc]
    ELSE LET w == utf8_width(b, i)
         IN  IF w = 0 THEN [ok |-> FALSE, s |-> <<>>]
             ELSE utf8_from(b, i + w, Append(acc, utf8_scalar(b, i, w)))

from_utf8(b) == utf8_from(b, 1, <<>>)

(***************************************************************************)
(* The writer.  room < 0 is a growable in-memory stream (Cursor<Vec<u8>>), *)
(* whose write takes every byte offered; room >= 0 is a stream over a      *)
(* fixed buffer of room bytes (Cursor<&mut [u8]>), whose write takes what  *)
(* still fits and reports how much that was; a broken writer returns an    *)
(* error.  write is one call of Write::write.                              *)
(***************************************************************************)
Min(a, b) == IF a < b THEN a ELSE b

NoErr == [kind |-> "", payload |-> <<>>]
IoErr(k) == [kind |-> k, payload |-> <<>>]

write(w, data) ==
    IF w.broken THEN [ok |-> FALSE, n |-> 0, w |-> w, err |-> IoErr("BrokenPipe")]
    ELSE LET n == IF w.room < 0 THEN Len(data)
                  ELSE Min(Len(data), w.room - Len(w.buf))
         IN  [ok |-> TRUE, n |-> n,
              w |-> [w EXCEPT !.buf = @ \o SubSeq(data, 1, n)],
              err |-> NoErr]

(***************************************************************************)
(* Encode.  Every operator returns [ok, n, w, err]: io::Result<usize> and  *)
(* the writer after the call.                                              *)
(***************************************************************************)
RECURSIVE Encode(_, _, _)

\* impl_encode_number!: writer.write(&self.to_be_bytes())
EncodeNum(ty, v, w) == write(w, to_be_bytes(v, size_of(ty)))

\* derive_enum! encode: writer.write(&(Self::$variant as u32).to_be_bytes())?
EncodeEnum(ty, v, w) == write(w, to_be_bytes(v, 4))

EncodeStringCharCount(ty, v, w) ==
    LET h == Encode("usize", chars_count(v), w)
    IN  IF ~h.ok THEN h
        ELSE LET b == write(h.w, as_bytes(v))
             IN  IF ~b.ok THEN b ELSE [b EXCEPT !.n = h.n + b.n]

\* impl Encode for String
EncodeString(ty, v, w) ==
    LET h == Encode("usize", str_len(v), w)
    IN  IF ~h.ok THEN h
        ELSE LET b == write(h.w, as_bytes(v))
             IN  IF ~b.ok THEN b ELSE [b EXCEPT !.n = h.n + b.n]

\* try_fold(0, |acc, elem| elem.encode(writer).map(|len| acc + len))
RECURSIVE try_fold(_, _, _, _, _)
try_fold(ety, v, i, w, acc) ==
    IF i > Len(v) THEN [ok |-> TRUE, n |-> acc, w |-> w, err |-> NoErr]
    ELSE LET e == Encode(ety, v[i], w)
         IN  IF ~e.ok THEN e ELSE try_fold(ety, v, i + 1, e.w, acc + e.n)

\* impl Encode for Vec<T>
EncodeVec(ty, v, w) ==
    LET h == Encode("usize", Len(v), w)
    IN  IF ~h.ok THEN h
        ELSE LET b == try_fold(ElemOf(ty), v, 1, h.w, 0)
             IN  IF ~b.ok THEN b ELSE [b EXCEPT !.n = h.n + b.n]

\* $(len += self.$field.encode(writer)?;)*
RECURSIVE EncodeFields(_, _, _, _, _)
EncodeFields(tys, v, i, w, len) ==
    IF i > Len(tys) THEN [ok |-> TRUE, n |-> len, w |-> w, err |-> NoErr]
    ELSE LET e == Encode(tys[i], v[i], w)
         IN  IF ~e.ok THEN e ELSE EncodeFields(tys, v, i + 1, e.w, len + e.n)

RECURSIVE EncodeFieldsBackwards(_, _, _, _, _)
EncodeFieldsBackwards(tys, v, i, w, len) ==
    IF i < 1 THEN [ok |-> TRUE, n |-> len, w |-> w, err |-> NoErr]
    ELSE LET e == Encode(tys[i], v[i], w)
         IN  IF ~e.ok THEN e
             ELSE EncodeFieldsBackwards(tys, v, i - 1, e.w, len + e.n)

EncodeStructBackwards(ty, v, w) ==
    EncodeFieldsBackwards(FieldsOf(ty), v, Len(FieldsOf(ty)), w, 0)

\* derive_struct! encode (and the Encode impl of tests::Example)
EncodeStruct(ty, v, w) == EncodeFields(FieldsOf(ty), v, 1, w, 0)

Encode(ty, v, w) ==
    CASE KindOf(ty) = "num" -> EncodeNum(ty, v, w)
      [] KindOf(ty) = "str" -> EncodeString(ty, v, w)
      [] KindOf(ty) = "vec" -> EncodeVec(ty, v, w)
      [] KindOf(ty) = "struct" -> EncodeStruct(ty, v, w)
      [] KindOf(ty) = "enum" -> EncodeEnum(ty, v, w)

(***************************************************************************)
(* The reader: a stream buf read from position pos; reads counts the calls *)
(* of read_exact.  read_exact(r, n) fills a buffer of n bytes or fails     *)
(* with UnexpectedEof, having consumed what was left.                      *)
(***************************************************************************)
read_exact_short(r, n) ==
    LET m == Min(n, Len(r.buf) - r.pos)
    IN  [ok |-> TRUE,
         bytes |-> SubSeq(r.buf, r.pos + 1, r.pos + m) \o [i \in 1..(n - m) |-> 0],
         r |-> [r EXCEPT !.pos = @ + m, !.reads = @ + 1]]

read_exact(r, n) ==
    IF n <= Len(r.buf) - r.pos
    THEN [ok |-> TRUE, bytes |-> SubSeq(r.buf, r.pos + 1, r.pos + n),
          r |-> [r EXCEPT !.pos = @ + n, !.reads = @ + 1]]
    ELSE [ok |-> FALSE, bytes |-> <<>>,
          r |-> [r EXCEPT !.pos = Len(r.buf), !.reads = @ + 1]]

(***************************************************************************)
(* Decode.  Every operator returns [st, v, err, r]: st is "ok" (Ok(v)),    *)
(* "err" (Err(err)) or "panic" (the call unwound by a panic), r the reader *)
(* after the call.                                                         *)
(***************************************************************************)
Ok(v, r) == [st |-> "ok", v |-> v, err |-> NoErr, r |-> r]
Err(e, r) == [st |-> "err", v |-> <<>>, err |-> e, r |-> r]
Panic(r) == [st |-> "panic", v |-> <<>>, err |-> NoErr, r |-> r]

RECURSIVE Decode(_, _)

\* impl_decode_number!
DecodeNum(ty, r) ==
    LET x == read_exact(r, size_of(ty))
    IN  IF ~x.ok THEN Err(IoErr("UnexpectedEof"), x.r)
        ELSE Ok(from_be_bytes(x.bytes), x.r)

DecodeEnumWide(ty, r) ==
    LET x == read_exact(r, size_of("usize"))
    IN  IF ~x.ok THEN Err(IoErr("UnexpectedEof"), x.r)
        ELSE LET variant == from_be_bytes(SubSeq(x.bytes, 1, 4))
             IN  IF variant \in 0..(NumVariants - 1) THEN Ok(variant, x.r)
                 ELSE Err(IoErr("NotFound"), x.r)

\* derive_enum! decode
DecodeEnum(ty, r) ==
    LET x == read_exact(r, 4)
    IN  IF ~x.ok THEN Err(IoErr("UnexpectedEof"), x.r)
        ELSE LET variant == from_be_bytes(x.bytes)
             IN  IF variant \in 0..(NumVariants - 1) THEN Ok(variant, x.r)
                 ELSE Err(IoErr("NotFound"), x.r)

\* impl Decode for String
DecodeString(ty, r) ==
    LET h == read_exact(r, size_of("usize"))
    IN  IF ~h.ok THEN Err(IoErr("UnexpectedEof"), h.r)
        ELSE LET len_body == from_be_bytes(h.bytes)
                 b == read_exact(h.r, len_body)
             IN  IF ~b.ok THEN Err(IoErr("UnexpectedEof"), b.r)
                 ELSE LET s == from_utf8(b.bytes)
                      IN  IF s.ok THEN Ok(s.s, b.r) ELSE Panic(b.r)

\* (0..len_body).map(|_| T::decode(reader)).collect::<io::Result<Self>>()
RECURSIVE collect(_, _, _, _)
collect(ety, k, r, acc) ==
    IF k = 0 THEN Ok(acc, r)
    ELSE LET e == Decode(ety, r)
         IN  IF e.st # "ok" THEN e ELSE collect(ety, k - 1, e.r, Append(acc, e.v))

RECURSIVE collect_front(_, _, _, _)
collect_front(ety, k, r, acc) ==
    IF k = 0 THEN Ok(acc, r)
    ELSE LET e == Decode(ety, r)
         IN  IF e.st # "ok" THEN e
             ELSE collect_front(ety, k - 1, e.r, <<e.v>> \o acc)

DecodeVecFront(ty, r) ==
    LET h == read_exact(r, size_of("usize"))
    IN  IF ~h.ok THEN Err(IoErr("UnexpectedEof"), h.r)
        ELSE collect_front(ElemOf(ty), from_be_bytes(h.bytes), h.r, <<>>)

\* impl Decode for Vec<T>
DecodeVec(ty, r) ==
    LET h == read_exact(r, size_of("usize"))
    IN  IF ~h.ok THEN Err(IoErr("UnexpectedEof"), h.r)
        ELSE collect(ElemOf(ty), from_be_bytes(h.bytes), h.r, <<>>)

\* Ok(Self { $($field : <$type>::decode(reader)?),* })
RECURSIVE DecodeFields(_, _, _, _)
RECURSIVE DecodeFieldsAll(_, _, _, _, _)
DecodeFieldsAll(tys, i, r, acc, first) ==
    IF i > Len(tys) THEN (IF first.st = "ok" THEN Ok(acc, r) ELSE [first EXCEPT !.r = r])
    ELSE LET d == Decode(tys[i], r)
         IN  IF d.st = "ok"
             THEN DecodeFieldsAll(tys, i + 1, d.r, Append(acc, d.v), first)
             ELSE DecodeFieldsAll(tys, i + 1, d.r, acc,
                                  IF first.st = "ok" THEN d ELSE first)

DecodeFieldsKeepGoing(tys, i, r, acc) == DecodeFieldsAll(tys, i, r, acc, Ok(<<>>, r))

DecodeFields(tys, i, r, acc) ==
    IF i > Len(tys) THEN Ok(acc, r)
    ELSE LET d == Decode(tys[i], r)
         IN  IF d.st # "ok" THEN d
             ELSE DecodeFields(tys, i + 1, d.r, Append(acc, d.v))

\* derive_struct! decode (and the Decode impl of tests::Example)
DecodeStruct(ty, r) == DecodeFields(FieldsOf(ty), 1, r, <<>>)

Decode(ty, r) ==
    CASE KindOf(ty) = "num" -> DecodeNum(ty, r)
      [] KindOf(ty) = "str" -> DecodeString(ty, r)
      [] KindOf(ty) = "vec" -> DecodeVec(ty, r)
      [] KindOf(ty) = "struct" -> DecodeStruct(ty, r)
      [] KindOf(ty) = "enum" -> DecodeEnum(ty, r)

(***************************************************************************)
(* Inputs.  Values(ty) are the values a single encode call is tried on,    *)
(* Samples(ty) the smaller set used for record fields and for streams of   *)
(* several values.  A String is a sequence of scalar values: A, e-acute,   *)
(* the euro sign and an emoji take 1, 2, 3 and 4 bytes of UTF-8.           *)
(***************************************************************************)
Chars == {65, 233, 8364, 128512}

SeqsUpTo(S, n) == UNION {[1..k -> S] : k \in 0..n}

NumSamples(ty) ==
    CASE ty = "u8" -> {0, 255}
      [] ty = "u16" -> {258, 65535}
      [] ty = "u32" -> {16909060, 2147483647}
      [] ty = "u64" -> {0, 16909060}
      [] ty = "u128" -> {1, 2147483647}
      [] ty = "usize" -> {258, 16909060}

NumValues(ty) ==
    NumSamples(ty) \cup
    (CASE ty = "u8" -> {1, 127, 128}
       [] ty = "u16" -> {0, 255, 256}
       [] OTHER -> {0, 65536})

StrSamples == {<<>>, <<233, 65>>}

Variants == 0..(NumVariants - 1)

Samples(ty) ==
    CASE KindOf(ty) = "num" -> NumSamples(ty)
      [] KindOf(ty) = "str" -> StrSamples
      [] KindOf(ty) = "enum" -> {0, NumVariants - 1}
      [] ty = "Vec<String>" -> {<<>>, <<<<8364>>, <<>>>>}
      [] KindOf(ty) = "vec" -> {<<>>, <<1, 0>>}
      [] ty = "Example" ->
            {<<1, <<>>, <<233, 65>>, 258, <<128512>>>>,
             <<2147483647, <<65>>, <<>>, 65535, <<8364, 65>>>>}
      [] ty = "Packet" -> {<<258, 0, <<>>>>, <<65535, NumVariants - 1, <<233>>>>}

RECURSIVE FieldProduct(_)
\* All tuples of field values whose field i is drawn from Samples(tys[i]).
FieldProduct(tys) ==
    IF tys = <<>> THEN {<<>>}
    ELSE {<<x>> \o rest : x \in Samples(Head(tys)), rest \in FieldProduct(Tail(tys))}

Values(ty) ==
    CASE KindOf(ty) = "num" -> NumValues(ty)
      [] KindOf(ty) = "str" -> SeqsUpTo(Chars, MaxStrLen)
      [] KindOf(ty) = "enum" -> Variants
      [] KindOf(ty) = "vec" ->
            SeqsUpTo(Samples(ElemOf(ty)), MaxVecLen) \cup Samples(ty)
      [] KindOf(ty) = "struct" -> FieldProduct(FieldsOf(ty)) \cup Samples(ty)

(***************************************************************************)
(* Streams that arrive from elsewhere.  A union tag is any 32-bit value    *)
(* up to NumVariants + MaxExtraTag; a text is a length header followed by  *)
(* that many arbitrary bytes; a Packet is a u16, a tag and a text.         *)
(***************************************************************************)
RawBytes == {65, 128, 195, 169, 255}

Tags == 0..(NumVariants + MaxExtraTag)

RawText == {to_be_bytes(Len(b), size_of("usize")) \o b : b \in SeqsUpTo(RawBytes, MaxRawLen)}

WireTypes == {"Kind", "String", "Packet", "Vec<String>"}

WireInputs(ty) ==
    CASE ty = "Kind" -> {to_be_bytes(d, 4) : d \in Tags}
      [] ty = "String" -> RawText
      [] ty = "Packet" ->
            {to_be_bytes(258, 2) \o to_be_bytes(d, 4) \o t : d \in Tags, t \in RawText}
      [] ty = "Vec<String>" ->
            {to_be_bytes(2, size_of("usize")) \o t \o to_be_bytes(0, size_of("usize")) :
                t \in RawText}

(***************************************************************************)
(* The program: values are encoded one after another into the writer, the  *)
(* stream is then read back from position 0 (whole, or cut short), or a    *)
(* stream received from elsewhere is read; the types are decoded in order. *)
(* pc: "writing", "reading", "failed" (a call returned Err and the caller  *)
(* stopped), "panicked" (a call panicked).                                 *)
(***************************************************************************)
Growable == [buf |-> <<>>, room |-> -1, broken |-> FALSE]

Writers ==
    {Growable, [Growable EXCEPT !.broken = TRUE]}
    \cup {[Growable EXCEPT !.room = n] : n \in 0..MaxRoom}

NoReader == [buf |-> <<>>, pos |-> 0, reads |-> 0]

InitWith(w) ==
    /\ pc = "writing"
    /\ writer = w
    /\ sent = <<>>
    /\ wrote = <<>>
    /\ reader = NoReader
    /\ want = <<>>
    /\ got = <<>>

Init == InitWith(Growable)

InitWriter == \E w \in Writers : InitWith(w)

\* value.encode(&mut writer)
EncodeStep(ty, v) ==
    LET e == Encode(ty, v, writer)
    IN  /\ pc = "writing"
        /\ writer' = e.w
        /\ sent' = Append(sent, [k |-> ty, v |-> v])
        /\ wrote' = Append(wrote, [ok |-> e.ok, n |-> e.n, from |-> Len(writer.buf)])
        /\ pc' = IF e.ok THEN "writing" ELSE "failed"
        /\ UNCHANGED <<reader, want, got>>

EncodeOne ==
    /\ sent = <<>>
    /\ \E ty \in Types : \E v \in Values(ty) : EncodeStep(ty, v)

EncodeNext ==
    /\ Len(sent) < MaxItems
    /\ \E ty \in Types : \E v \in Samples(ty) : EncodeStep(ty, v)

TypesOf(items) == [i \in 1..Len(items) |-> items[i].k]

\* cursor.set_position(0)
Rewind ==
    /\ pc = "writing"
    /\ sent # <<>>
    /\ reader' = [buf |-> writer.buf, pos |-> 0, reads |-> 0]
    /\ want' = TypesOf(sent)
    /\ pc' = "reading"
    /\ UNCHANGED <<writer, sent, wrote, got>>

\* The reader is given only the first k bytes of what was written.
Truncate ==
    /\ pc = "writing"
    /\ sent # <<>>
    /\ \E k \in 0..(Len(writer.buf) - 1) :
          reader' = [buf |-> SubSeq(writer.buf, 1, k), pos |-> 0, reads |-> 0]
    /\ want' = TypesOf(sent)
    /\ pc' = "reading"
    /\ UNCHANGED <<writer, sent, wrote, got>>

\* The reader is given a stream that this program did not write.
Receive ==
    /\ pc = "writing"
    /\ sent = <<>>
    /\ \E ty \in WireTypes : \E b \in WireInputs(ty) :
          /\ reader' = [buf |-> b, pos |-> 0, reads |-> 0]
          /\ want' = <<ty>>
    /\ pc' = "reading"
    /\ UNCHANGED <<writer, sent, wrote, got>>

\* <T>::decode(&mut reader) for the next type
DecodeNext ==
    /\ pc = "reading"
    /\ Len(got) < Len(want)
    /\ LET d == Decode(want[Len(got) + 1], reader)
       IN  /\ reader' = d.r
           /\ got' = Append(got, [st |-> d.st, v |-> d.v, err |-> d.err,
                                  pos |-> d.r.pos, reads |-> d.r.reads])
           /\ pc' = CASE d.st = "ok" -> "reading"
                      [] d.st = "err" -> "failed"
                      [] d.st = "panic" -> "panicked"
    /\ UNCHANGED <<writer, sent, wrote, want>>

\* One value through a growable stream, or a received or truncated stream.
Next == EncodeOne \/ Rewind \/ Truncate \/ Receive \/ DecodeNext

Spec == Init /\ [][Next]_vars

\* Several values, one after another, through a growable stream.
NextStream == EncodeNext \/ Rewind \/ DecodeNext

SpecStream == Init /\ [][NextStream]_vars

\* One value through any writer.
NextWriter == EncodeOne \/ Rewind \/ DecodeNext

SpecWriter == InitWriter /\ [][NextWriter]_vars

(***************************************************************************)
(* Properties.                                                             *)
(***************************************************************************)
\* The reader was given everything that was written.
Whole == pc # "writing" /\ sent # <<>> /\ reader.buf = writer.buf

\* The reader was given a strict prefix of what was written.
CutShort == pc # "writing" /\ sent # <<>> /\ Len(reader.buf) < Len(writer.buf)

\* The reader was given a stream received from elsewhere, to decode as ty.
Received(ty) == pc # "writing" /\ sent = <<>> /\ want = <<ty>>

Decoded == got # <<>>

RoundTrips == got[1].st = "ok" /\ got[1].v = sent[1].v

\* C1: an unsigned integer of any width (u8, u16, u32, u64, u128, usize),
\* encoded into an empty stream and decoded from its start, comes back
\* unchanged.
C1_NumberRoundTrip ==
    (Whole /\ Decoded /\ sent[1].k \in NumTypes) => RoundTrips

C1_Witness ==
    /\ Whole /\ Decoded
    /\ sent[1].k = "u128"
    /\ sent[1].v = 2147483647
    /\ got[1].st = "ok"
    /\ got[1].v = 2147483647

\* C2: a text, encoded and decoded, comes back unchanged, and decode
\* consumes as many bytes as encode wrote: the length header plus the UTF-8
\* bytes of the text.
C2_StringRoundTrip ==
    (Whole /\ Decoded /\ sent[1].k = "String") =>
        /\ RoundTrips
        /\ got[1].pos = wrote[1].n
        /\ wrote[1].n = size_of("usize") + Len(as_bytes(sent[1].v))
        /\ wrote[1].n = Len(writer.buf)

C2_Witness ==
    /\ Whole /\ Decoded
    /\ sent[1].k = "String"
    /\ sent[1].v = <<128512, 233>>
    /\ got[1].st = "ok"
    /\ got[1].v = <<128512, 233>>
    /\ got[1].pos = 14

\* C3: a sequence, encoded and decoded, comes back with the same length and
\* the same elements in the same order.
C3_VecRoundTrip ==
    (Whole /\ Decoded /\ sent[1].k \in VecTypes) =>
        /\ got[1].st = "ok"
        /\ Len(got[1].v) = Len(sent[1].v)
        /\ \A i \in 1..Len(sent[1].v) : got[1].v[i] = sent[1].v[i]

C3_Witness ==
    /\ Whole /\ Decoded
    /\ sent[1].k = "Vec<String>"
    /\ sent[1].v = <<<<233, 65>>, <<>>>>
    /\ got[1].st = "ok"
    /\ got[1].v[1] = <<233, 65>>

\* The position in the stream at which field i of a record of type ty with
\* value v starts.
RECURSIVE FieldStart(_, _, _)
FieldStart(ty, v, i) ==
    IF i = 1 THEN 0
    ELSE FieldStart(ty, v, i - 1)
         + Encode(FieldsOf(ty)[i - 1], v[i - 1], Growable).n

\* C4: a record, encoded and decoded, comes back equal field by field, and
\* each field is what its own type decodes from the bytes written for the
\* field at that position.
C4_RecordRoundTrip ==
    (Whole /\ Decoded /\ sent[1].k \in StructTypes) =>
        /\ got[1].st = "ok"
        /\ Len(got[1].v) = Len(FieldsOf(sent[1].k))
        /\ \A i \in 1..Len(FieldsOf(sent[1].k)) :
              /\ got[1].v[i] = sent[1].v[i]
              /\ LET at == [buf |-> reader.buf,
                            pos |-> FieldStart(sent[1].k, sent[1].v, i),
                            reads |-> 0]
                     f == Decode(FieldsOf(sent[1].k)[i], at)
                 IN  f.st = "ok" /\ f.v = got[1].v[i]

C4_Witness ==
    /\ Whole /\ Decoded
    /\ sent[1].k = "Example"
    /\ sent[1].v = <<2147483647, <<65>>, <<>>, 65535, <<8364, 65>>>>
    /\ got[1].st = "ok"
    /\ got[1].v[5] = <<8364, 65>>

\* C5: union decode of a 32-bit big-endian tag d returns variant d when d
\* is a declared position, and otherwise a NotFound error that carries d.
C5_TagErrorNamesValue ==
    (Received("Kind") /\ Decoded) =>
        LET d == from_be_bytes(reader.buf)
        IN  IF d \in Variants
            THEN got[1].st = "ok" /\ got[1].v = d
            ELSE /\ got[1].st = "err"
                 /\ got[1].err.kind = "NotFound"
                 /\ \E i \in 1..Len(got[1].err.payload) : got[1].err.payload[i] = d

\* The body of a received text: the bytes after the length header.
Body(b) == SubSeq(b, size_of("usize") + 1, Len(b))

\* C6: text decode of a length header followed by that many bytes that are
\* not valid UTF-8 returns an error; it does not panic and returns no text.
C6_BadUtf8IsError ==
    (/\ Received("String") /\ Decoded
     /\ ~from_utf8(Body(reader.buf)).ok) => got[1].st = "err"

\* C7: decode of any type from a strict prefix of a value's encoding (the
\* empty stream included) returns an UnexpectedEof error and no value.
C7_TruncatedIsEof ==
    (CutShort /\ Decoded) =>
        got[1].st = "err" /\ got[1].err.kind = "UnexpectedEof"

C7_Witness ==
    /\ CutShort /\ Decoded
    /\ sent[1].k = "Example"
    /\ Len(reader.buf) = Len(writer.buf) - 1
    /\ got[1].err.kind = "UnexpectedEof"

\* The decode of field i of a record of type ty read from the start of
\* stream b, the fields before it having been decoded one after another.
RECURSIVE FieldDecode(_, _, _)
FieldDecode(ty, b, i) ==
    Decode(FieldsOf(ty)[i],
           IF i = 1 THEN [buf |-> b, pos |-> 0, reads |-> 0]
           ELSE FieldDecode(ty, b, i - 1).r)

Wire(ty, v) ==
    IF ty = "String"
    THEN to_be_bytes(Len(as_bytes(v)), size_of("usize")) \o as_bytes(v)
    ELSE to_be_bytes(v, size_of(ty))

\* C9: when encode of an integer or a text returns Ok(n), the stream holds
\* the whole wire encoding of the value and n is its length, whatever the
\* writer.
C9_OkMeansAllWritten ==
    (sent # <<>> /\ sent[1].k \in NumTypes \cup {"String"} /\ wrote[1].ok) =>
        /\ writer.buf = Wire(sent[1].k, sent[1].v)
        /\ wrote[1].n = Len(Wire(sent[1].k, sent[1].v))

\* C10: values encoded one after another into one stream are decoded, in
\* the same order, each from exactly the bytes written for it, and the
\* reader ends exactly at the end of the stream.
C10_ConsumesWhatWasWritten ==
    (pc # "writing") =>
        /\ \A i \in 1..Len(got) :
              /\ got[i].st = "ok"
              /\ got[i].v = sent[i].v
              /\ got[i].pos = wrote[i].from + wrote[i].n
        /\ (Len(got) = Len(want) => reader.pos = Len(reader.buf))

C10_Witness ==
    /\ pc = "reading"
    /\ Len(got) = 2
    /\ sent[1].k = "Kind"
    /\ sent[1].v = NumVariants - 1
    /\ sent[2].k = "String"
    /\ sent[2].v = <<233, 65>>
    /\ got[2].st = "ok"
    /\ got[2].v = <<233, 65>>
    /\ reader.pos = 15

====
